---- MODULE Spec2Model ----
(***************************************************************************)
(* Model of userspace/ksud/src/sulog_poller.rs: the one-shot launch gate   *)
(* of start(), the double-fork daemonizer with its thread fallback, the    *)
(* poll loop, and the rotate-and-append persistence of one poll cycle.     *)
(*                                                                         *)
(* Execution contexts: the caller's threads (each may call start()), the   *)
(* first-fork child, the grandchild daemon and the fallback thread.  The   *)
(* log directory and its two files are shared by all of them.  A poll      *)
(* cycle is modelled step by step (fetch, ensure dir, rotate, open, write) *)
(* so that cycles of different contexts could interleave if the code let   *)
(* them.                                                                   *)
(***************************************************************************)
EXTENDS Integers, Sequences, FiniteSets, TLC

\* ------------------------------------------------------------------ bounds
\* Calls of start() the caller threads make in total.
MaxCalls == 2
\* metadata and rename can fail only while the current file holds fewer
\* chunks than this: an oversized file of this many chunks is rotated, which
\* keeps the file, and so the state space, finite.
MaxFileChunks == 2

\* --------------------------------------------------------- program constants
DEFAULT_POLL_INTERVAL_SECS == 30
ROTATE_SIZE_BYTES == 32 * 1024 * 1024

\* ---------------------------------------------------------------- contexts
Threads == {"t1", "t2"}
LoopCtx == {"grandchild", "fallback"}
Ctx == Threads \cup {"child"} \cup LoopCtx

\* ------------------------------------------------------------------- blobs
\* Contents the fetch collaborator can return, by name, with their lengths.
Blobs == {"empty", "full"}
BlobLen(b) ==
  CASE b = "empty" -> 0
    [] b = "full"  -> ROTATE_SIZE_BYTES
    [] OTHER       -> 0
FetchErr == "err"
FetchResults == Blobs \cup {FetchErr}

\* ------------------------------------------------------------------- files
\* A file is absent or holds a sequence of chunks; a chunk is the first n
\* bytes of a named content.
Absent == [exists |-> FALSE, data |-> <<>>]
File(d) == [exists |-> TRUE, data |-> d]
Chunk(b, n) == [b |-> b, n |-> n]
FullChunk(b) == Chunk(b, BlobLen(b))

RECURSIVE Size(_)
Size(d) == IF d = <<>> THEN 0 ELSE Head(d).n + Size(Tail(d))

\* std::fs::metadata(path).len(): defined only for an existing file.
FileLen(f) == Size(f.data)

\* File systems the poller may find at start: no log directory at all, a
\* current file exactly at the threshold and no backup, or a current file
\* one byte over the threshold and a backup left by an earlier run.
OverFs ==
  [dir |-> TRUE, cur |-> File(<<Chunk("init", ROTATE_SIZE_BYTES + 1)>>),
   bak |-> File(<<Chunk("old", 1)>>)]
InitFs ==
  {[dir |-> FALSE, cur |-> Absent, bak |-> Absent],
   [dir |-> TRUE, cur |-> File(<<Chunk("init", ROTATE_SIZE_BYTES)>>),
    bak |-> Absent],
   OverFs}

\* ------------------------------------------------------------- environment
\* KSU_SULOG_POLL_SECS: unset, or set to a string (a sequence of characters).
EnvUnset == [set |-> FALSE, s |-> <<>>]
EnvStr(s) == [set |-> TRUE, s |-> s]
Overlong == <<"9","9","9","9","9","9","9","9","9","9",
              "9","9","9","9","9","9","9","9","9","9">>
EnvValues ==
  {EnvUnset, EnvStr(<<>>), EnvStr(<<"5">>), EnvStr(<<"+", "7">>),
   EnvStr(<<"a", "b", "c">>), EnvStr(<<"-", "1">>), EnvStr(Overlong)}

EnvWrites == {EnvUnset, EnvStr(<<"5">>)}

Digits == <<"0", "1", "2", "3", "4", "5", "6", "7", "8", "9">>
IsDigit(ch) == \E i \in 1..10 : Digits[i] = ch
DigitOf(ch) == (CHOOSE i \in 1..10 : Digits[i] = ch) - 1
U64MaxDigits == <<"1","8","4","4","6","7","4","4","0","7",
                  "3","7","0","9","5","5","1","6","1","5">>

RECURSIVE StripZeros(_)
StripZeros(s) ==
  IF s # <<>> /\ Head(s) = "0" THEN StripZeros(Tail(s)) ELSE s

\* a > b for two digit strings of the same length.
RECURSIVE DigitsGreater(_, _)
DigitsGreater(a, b) ==
  IF a = <<>> THEN FALSE
  ELSE IF Head(a) # Head(b) THEN DigitOf(Head(a)) > DigitOf(Head(b))
  ELSE DigitsGreater(Tail(a), Tail(b))

\* The checked multiply-and-add of the digit loop overflows exactly when
\* the number exceeds u64::MAX.
Overflows(ds) ==
  LET n == StripZeros(ds) IN
    \/ Len(n) > Len(U64MaxDigits)
    \/ Len(n) = Len(U64MaxDigits) /\ DigitsGreater(n, U64MaxDigits)

RECURSIVE Horner(_, _)
Horner(acc, ds) ==
  IF ds = <<>> THEN acc ELSE Horner(acc * 10 + DigitOf(Head(ds)), Tail(ds))

\* s.parse::<u64>(): an optional "+", then one or more decimal digits, no
\* overflow.  A lone sign, an empty string, "-" or any other character is
\* an error.
ParseU64(s) ==
  LET ds == IF s # <<>> /\ Head(s) = "+" THEN Tail(s) ELSE s IN
    IF ds = <<>> \/ (\E i \in 1..Len(ds) : ~IsDigit(ds[i])) \/ Overflows(ds)
    THEN [ok |-> FALSE, v |-> 0]
    ELSE [ok |-> TRUE, v |-> Horner(0, ds)]

\* env::var(..).ok().and_then(|s| s.parse::<u64>().ok()).unwrap_or(DEFAULT)
PollInterval(e) ==
  IF e.set /\ ParseU64(e.s).ok THEN ParseU64(e.s).v
  ELSE DEFAULT_POLL_INTERVAL_SECS

\* ------------------------------------------------------------------- state
VARIABLES
  once,      \* the Once of start(): "incomplete", "running", "complete"
  pc,        \* where each context is
  after,     \* where a context goes after its poll cycle: "resolve" for the
             \* launch sequence, "sleep" for a poll loop
  calls,     \* calls of start() made so far
  fs,        \* the log directory, the current file and the backup file
  cyc,       \* the poll cycle a context is in: file system at its start,
             \* fetch result, I/O performed in order, persist's result
  interval,  \* each context's poll_interval local (-1: not yet bound)
  env,       \* the caller process's environment variable
  slept,     \* duration of each loop's latest sleep (-1: none yet)
  outcome,   \* results of the first fork, the thread spawn, the second fork,
             \* and the intermediate child's exit code
  session,   \* the session each forked process belongs to, and whether it
             \* leads it
  cnt,       \* what caller threads did in start(): closure runs, fetches,
             \* calls of persist_sulog_content, first forks, thread spawns
             \* (history)
  acc        \* bytes of the blobs persisted with Ok while no rotation and no
             \* failed write has happened (history)

vars == <<once, pc, after, calls, fs, cyc, interval, env, slept,
          outcome, session, cnt, acc>>

NoCycle == [pre |-> [dir |-> FALSE, cur |-> Absent, bak |-> Absent],
            fetch |-> "none", ops |-> <<>>, res |-> "none"]

CyclePcs == {"fetch", "persist", "rotate", "open", "write", "done"}

InitState(f, e) ==
  /\ once = "incomplete"
  /\ pc = [c \in Ctx |-> IF c \in Threads THEN "idle" ELSE "none"]
  /\ after = [c \in Ctx |-> "none"]
  /\ calls = 0
  /\ fs = f
  /\ cyc = [c \in Ctx |-> NoCycle]
  /\ interval = [c \in Ctx |-> -1]
  /\ env = e
  /\ slept = [c \in LoopCtx |-> -1]
  /\ outcome = [fork1 |-> "none", spawn |-> "none", fork2 |-> "none",
                exit |-> -1]
  /\ session = [child |-> "none", grandchild |-> "none", leader |-> "none"]
  /\ cnt = [launch |-> 0, fetch |-> 0, persist |-> 0, fork1 |-> 0,
            spawn |-> 0]
  /\ acc = [valid |-> TRUE, sum |-> 0, init |-> FileLen(f.cur)]

\* Any initial file system, the variable unset.
Init == \E f \in InitFs : InitState(f, EnvUnset)

\* An oversized current file with an old backup, any value of the variable.
EnvInit == \E e \in EnvValues : InitState(OverFs, e)


\* ------------------------------------------------------ poll cycle (59-68)
At(c, l) == pc[c] = l
Goto(c, l) == pc' = [pc EXCEPT ![c] = l]
Did(c, op) == cyc' = [cyc EXCEPT ![c].ops = Append(@, op)]
DidEnd(c, op, r) == cyc' = [cyc EXCEPT ![c].ops = Append(@, op), ![c].res = r]

\* ksucalls::fetch_sulog(): an error ends the cycle, a blob goes to
\* persist_sulog_content.
Fetch(c) ==
  /\ At(c, "fetch")
  /\ \E r \in FetchResults :
       /\ cyc' = [cyc EXCEPT ![c] = [pre |-> fs, fetch |-> r, ops |-> <<>>,
                                     res |-> "none"]]
       /\ Goto(c, IF r = FetchErr THEN "done" ELSE "persist")
  /\ cnt' = IF c \in Threads THEN [cnt EXCEPT !.fetch = @ + 1] ELSE cnt
  /\ UNCHANGED <<once, after, calls, fs, interval, env, slept,
                 outcome, session, acc>>

\* Mutant: the empty-blob return is missing.
Persist_NoEmptyCheck(c) ==
  /\ At(c, "persist")
  /\ \E ok \in BOOLEAN :
       IF ok
       THEN /\ fs' = [fs EXCEPT !.dir = TRUE]
            /\ Did(c, "ensure_ok")
            /\ Goto(c, "rotate")
       ELSE /\ fs' = fs
            /\ DidEnd(c, "ensure_err", "err")
            /\ Goto(c, "done")
  /\ cnt' = IF c \in Threads THEN [cnt EXCEPT !.persist = @ + 1] ELSE cnt
  /\ UNCHANGED <<once, after, calls, interval, env, slept, outcome,
                 session, acc>>

\* Mutant: a failure of ensure_dir_exists is logged but not returned.
Persist_IgnoresDirError(c) ==
  /\ At(c, "persist")
  /\ IF cyc[c].fetch = "empty"
     THEN /\ cyc' = [cyc EXCEPT ![c].res = "ok"]
          /\ Goto(c, "done")
          /\ fs' = fs
     ELSE \E ok \in BOOLEAN :
            /\ fs' = IF ok THEN [fs EXCEPT !.dir = TRUE] ELSE fs
            /\ Did(c, IF ok THEN "ensure_ok" ELSE "ensure_err")
            /\ Goto(c, "rotate")
  /\ cnt' = IF c \in Threads THEN [cnt EXCEPT !.persist = @ + 1] ELSE cnt
  /\ UNCHANGED <<once, after, calls, interval, env, slept, outcome,
                 session, acc>>

\* persist_sulog_content, lines 32-39: the empty-blob return and
\* utils::ensure_dir_exists.
Persist(c) ==
  /\ At(c, "persist")
  /\ IF cyc[c].fetch = "empty"
     THEN /\ cyc' = [cyc EXCEPT ![c].res = "ok"]
          /\ Goto(c, "done")
          /\ fs' = fs
     ELSE \E ok \in BOOLEAN :
            IF ok
            THEN /\ fs' = [fs EXCEPT !.dir = TRUE]
                 /\ Did(c, "ensure_ok")
                 /\ Goto(c, "rotate")
            ELSE /\ fs' = fs
                 /\ DidEnd(c, "ensure_err", "err")
                 /\ Goto(c, "done")
  /\ cnt' = IF c \in Threads THEN [cnt EXCEPT !.persist = @ + 1] ELSE cnt
  /\ UNCHANGED <<once, after, calls, interval, env, slept, outcome,
                 session, acc>>

\* Mutant: the oversized file is copied to the backup path, not renamed.
Rotate_KeepsCurrent(c) ==
  /\ At(c, "rotate")
  /\ \E metaOk \in BOOLEAN, renameOk \in BOOLEAN :
       /\ ~(metaOk /\ renameOk) => Len(fs.cur.data) < MaxFileChunks
       /\ IF ~fs.cur.exists \/ FileLen(fs.cur) <= ROTATE_SIZE_BYTES
          THEN /\ fs' = fs
               /\ cyc' = cyc
          ELSE IF ~metaOk
          THEN /\ fs' = fs
               /\ Did(c, "stat_err")
          ELSE IF renameOk
          THEN /\ fs' = [fs EXCEPT !.bak = fs.cur]
               /\ Did(c, "rename_ok")
          ELSE /\ fs' = fs
               /\ Did(c, "rename_err")
  /\ acc' = [acc EXCEPT !.valid = FALSE, !.sum = 0]
  /\ Goto(c, "open")
  /\ UNCHANGED <<once, after, calls, interval, env, slept, outcome,
                 session, cnt>>

\* Mutant: the threshold is written as 64 MiB.
Rotate_DoubleThreshold(c) ==
  /\ At(c, "rotate")
  /\ \E metaOk \in BOOLEAN, renameOk \in BOOLEAN :
       /\ ~(metaOk /\ renameOk) => Len(fs.cur.data) < MaxFileChunks
       /\ IF ~fs.cur.exists \/ FileLen(fs.cur) <= 2 * ROTATE_SIZE_BYTES
          THEN /\ fs' = fs
               /\ cyc' = cyc
               /\ acc' = acc
          ELSE IF ~metaOk
          THEN /\ fs' = fs
               /\ Did(c, "stat_err")
               /\ acc' = acc
          ELSE IF renameOk
          THEN /\ fs' = [fs EXCEPT !.bak = fs.cur, !.cur = Absent]
               /\ Did(c, "rename_ok")
               /\ acc' = [acc EXCEPT !.valid = FALSE, !.sum = 0]
          ELSE /\ fs' = fs
               /\ Did(c, "rename_err")
               /\ acc' = acc
  /\ Goto(c, "open")
  /\ UNCHANGED <<once, after, calls, interval, env, slept, outcome,
                 session, cnt>>

\* Mutant: rotation does not replace a backup that already exists (the
\* oversized file is removed instead).
Rotate_KeepsOldBackup(c) ==
  /\ At(c, "rotate")
  /\ \E metaOk \in BOOLEAN, renameOk \in BOOLEAN :
       /\ ~(metaOk /\ renameOk) => Len(fs.cur.data) < MaxFileChunks
       /\ IF ~fs.cur.exists \/ FileLen(fs.cur) <= ROTATE_SIZE_BYTES
          THEN /\ fs' = fs
               /\ cyc' = cyc
               /\ acc' = acc
          ELSE IF ~metaOk
          THEN /\ fs' = fs
               /\ Did(c, "stat_err")
               /\ acc' = acc
          ELSE IF renameOk
          THEN /\ fs' = [fs EXCEPT !.bak = IF fs.bak.exists THEN fs.bak
                                           ELSE fs.cur,
                                   !.cur = Absent]
               /\ Did(c, "rename_ok")
               /\ acc' = [acc EXCEPT !.valid = FALSE, !.sum = 0]
          ELSE /\ fs' = fs
               /\ Did(c, "rename_err")
               /\ acc' = acc
  /\ Goto(c, "open")
  /\ UNCHANGED <<once, after, calls, interval, env, slept, outcome,
                 session, cnt>>

\* Mutant: a failed rename ends persist_sulog_content with Err, before the
\* open.
Rotate_AbortsOnRenameError(c) ==
  /\ At(c, "rotate")
  /\ \E metaOk \in BOOLEAN, renameOk \in BOOLEAN :
       /\ ~(metaOk /\ renameOk) => Len(fs.cur.data) < MaxFileChunks
       /\ IF ~fs.cur.exists \/ FileLen(fs.cur) <= ROTATE_SIZE_BYTES
          THEN /\ fs' = fs
               /\ cyc' = cyc
               /\ acc' = acc
               /\ Goto(c, "open")
          ELSE IF ~metaOk
          THEN /\ fs' = fs
               /\ Did(c, "stat_err")
               /\ acc' = acc
               /\ Goto(c, "open")
          ELSE IF renameOk
          THEN /\ fs' = [fs EXCEPT !.bak = fs.cur, !.cur = Absent]
               /\ Did(c, "rename_ok")
               /\ acc' = [acc EXCEPT !.valid = FALSE, !.sum = 0]
               /\ Goto(c, "open")
          ELSE /\ fs' = fs
               /\ DidEnd(c, "rename_err", "err")
               /\ acc' = acc
               /\ Goto(c, "done")
  /\ UNCHANGED <<once, after, calls, interval, env, slept, outcome,
                 session, cnt>>

\* Mutant: the size test is >= instead of >, so a file exactly at the
\* threshold is rotated.
Rotate_AtThreshold(c) ==
  /\ At(c, "rotate")
  /\ \E metaOk \in BOOLEAN, renameOk \in BOOLEAN :
       /\ ~(metaOk /\ renameOk) => Len(fs.cur.data) < MaxFileChunks
       /\ IF ~fs.cur.exists \/ FileLen(fs.cur) < ROTATE_SIZE_BYTES
          THEN /\ fs' = fs
               /\ cyc' = cyc
               /\ acc' = acc
          ELSE IF ~metaOk
          THEN /\ fs' = fs
               /\ Did(c, "stat_err")
               /\ acc' = acc
          ELSE IF renameOk
          THEN /\ fs' = [fs EXCEPT !.bak = fs.cur, !.cur = Absent]
               /\ Did(c, "rename_ok")
               /\ acc' = [acc EXCEPT !.valid = FALSE, !.sum = 0]
          ELSE /\ fs' = fs
               /\ Did(c, "rename_err")
               /\ acc' = acc
  /\ Goto(c, "open")
  /\ UNCHANGED <<once, after, calls, interval, env, slept, outcome,
                 session, cnt>>

\* rotate_if_needed, lines 20-28.  metadata fails when the file is absent
\* and may fail otherwise (recorded when it hides an oversized file); rename
\* replaces the backup.
Rotate(c) ==
  /\ At(c, "rotate")
  /\ \E metaOk \in BOOLEAN, renameOk \in BOOLEAN :
       /\ ~(metaOk /\ renameOk) => Len(fs.cur.data) < MaxFileChunks
       /\ IF ~fs.cur.exists \/ FileLen(fs.cur) <= ROTATE_SIZE_BYTES
          THEN /\ fs' = fs
               /\ cyc' = cyc
               /\ acc' = acc
          ELSE IF ~metaOk
          THEN /\ fs' = fs
               /\ Did(c, "stat_err")
               /\ acc' = acc
          ELSE IF renameOk
          THEN /\ fs' = [fs EXCEPT !.bak = fs.cur, !.cur = Absent]
               /\ Did(c, "rename_ok")
               /\ acc' = [acc EXCEPT !.valid = FALSE, !.sum = 0]
          ELSE /\ fs' = fs
               /\ Did(c, "rename_err")
               /\ acc' = acc
  /\ Goto(c, "open")
  /\ UNCHANGED <<once, after, calls, interval, env, slept, outcome,
                 session, cnt>>

\* Mutant: the file is opened with truncate(true) instead of append(true).
Open_Truncates(c) ==
  /\ At(c, "open")
  /\ \E ok \in BOOLEAN :
       IF ok
       THEN /\ fs' = [fs EXCEPT !.cur = File(<<>>)]
            /\ Did(c, "open_ok")
            /\ Goto(c, "write")
       ELSE /\ fs' = fs
            /\ DidEnd(c, "open_err", "err")
            /\ Goto(c, "done")
  /\ UNCHANGED <<once, after, calls, interval, env, slept, outcome,
                 session, cnt, acc>>

\* OpenOptions::new().create(true).append(true).open, lines 44 and 52-55.
Open(c) ==
  /\ At(c, "open")
  /\ \E ok \in BOOLEAN :
       IF ok
       THEN /\ fs' = [fs EXCEPT !.cur = File(fs.cur.data)]
            /\ Did(c, "open_ok")
            /\ Goto(c, "write")
       ELSE /\ fs' = fs
            /\ DidEnd(c, "open_err", "err")
            /\ Goto(c, "done")
  /\ UNCHANGED <<once, after, calls, interval, env, slept, outcome,
                 session, cnt, acc>>

AppendTo(f, b, n) ==
  IF n = 0 THEN File(f.data) ELSE File(Append(f.data, Chunk(b, n)))

\* Mutant: the file is opened without append(true), so the blob is written
\* from offset 0 over the bytes that were there.
Write_AtStart(c) ==
  /\ At(c, "write")
  /\ LET b == cyc[c].fetch
         rest == FileLen(fs.cur) - BlobLen(b) IN
       \/ /\ fs' = [fs EXCEPT !.cur =
                      IF rest > 0
                      THEN File(<<FullChunk(b), Chunk("rest", rest)>>)
                      ELSE File(<<FullChunk(b)>>)]
          /\ DidEnd(c, "write_ok", "ok")
          /\ acc' = IF acc.valid THEN [acc EXCEPT !.sum = @ + BlobLen(b)]
                    ELSE acc
       \/ /\ fs' = fs
          /\ DidEnd(c, "write_err", "err")
          /\ acc' = [acc EXCEPT !.valid = FALSE, !.sum = 0]
  /\ Goto(c, "done")
  /\ UNCHANGED <<once, after, calls, interval, env, slept, outcome,
                 session, cnt>>

\* f.write_all(content.as_bytes()), lines 45-51: the whole blob is appended,
\* or the first write() fails and nothing is.
Write(c) ==
  /\ At(c, "write")
  /\ LET b == cyc[c].fetch IN
       \/ /\ fs' = [fs EXCEPT !.cur = AppendTo(fs.cur, b, BlobLen(b))]
          /\ DidEnd(c, "write_ok", "ok")
          /\ acc' = IF acc.valid THEN [acc EXCEPT !.sum = @ + BlobLen(b)]
                    ELSE acc
       \/ /\ fs' = fs
          /\ DidEnd(c, "write_err", "err")
          /\ acc' = [acc EXCEPT !.valid = FALSE, !.sum = 0]
  /\ Goto(c, "done")
  /\ UNCHANGED <<once, after, calls, interval, env, slept, outcome,
                 session, cnt>>

\* Bytes a write_all that fails after its first write() has left behind: a
\* proper, non-empty prefix of the blob (here all but the last byte).
PartialLens(b) == {n \in {BlobLen(b) - 1} : n > 0}

\* f.write_all fails part of the way, lines 46-49.
WriteTorn(c) ==
  /\ At(c, "write")
  /\ \E n \in PartialLens(cyc[c].fetch) :
       fs' = [fs EXCEPT !.cur = AppendTo(fs.cur, cyc[c].fetch, n)]
  /\ DidEnd(c, "write_err", "err")
  /\ acc' = [acc EXCEPT !.valid = FALSE, !.sum = 0]
  /\ Goto(c, "done")
  /\ UNCHANGED <<once, after, calls, interval, env, slept, outcome,
                 session, cnt>>

\* Mutant: a poll loop ends at its first failed cycle (the error is
\* propagated out of the loop instead of being logged).
Done_BreakOnError(c) ==
  /\ At(c, "done")
  /\ Goto(c, IF after[c] = "sleep" /\ (cyc[c].fetch = FetchErr \/ cyc[c].res = "err")
             THEN "stopped" ELSE after[c])
  /\ cyc' = [cyc EXCEPT ![c] = IF c \in Threads
                               THEN [NoCycle EXCEPT !.fetch = cyc[c].fetch,
                                                    !.res = cyc[c].res]
                               ELSE NoCycle]
  /\ UNCHANGED <<once, after, calls, fs, interval, env, slept,
                 outcome, session, cnt, acc>>

\* fetch_and_persist_once returns (lines 62-67: failures are only logged);
\* the context goes on with what follows the call.  The results of the
\* launch sequence's cycle are kept until start() returns (history).
Done(c) ==
  /\ At(c, "done")
  /\ Goto(c, after[c])
  /\ cyc' = [cyc EXCEPT ![c] = IF c \in Threads
                               THEN [NoCycle EXCEPT !.fetch = cyc[c].fetch,
                                                    !.res = cyc[c].res]
                               ELSE NoCycle]
  /\ UNCHANGED <<once, after, calls, fs, interval, env, slept,
                 outcome, session, cnt, acc>>

Cycle(c) == Fetch(c) \/ Persist(c) \/ Rotate(c) \/ Open(c) \/ Write(c) \/ Done(c)

\* Mutant: the loop reads the environment variable anew for every sleep.
Sleep_RereadsEnv(c) ==
  /\ At(c, "sleep")
  /\ slept' = [slept EXCEPT ![c] = PollInterval(env)]
  /\ Goto(c, "fetch")
  /\ UNCHANGED <<once, after, calls, fs, cyc, interval, env, outcome,
                 session, cnt, acc>>

\* thread::sleep(Duration::from_secs(poll_interval)), lines 92 and 117.
Sleep(c) ==
  /\ At(c, "sleep")
  /\ slept' = [slept EXCEPT ![c] = interval[c]]
  /\ Goto(c, "fetch")
  /\ UNCHANGED <<once, after, calls, fs, cyc, interval, env, outcome,
                 session, cnt, acc>>

\* ------------------------------------------------------- start() (72-132)
\* A caller thread calls start().
Call(t) ==
  /\ At(t, "idle")
  /\ calls < MaxCalls
  /\ calls' = calls + 1
  /\ Goto(t, "gate")
  /\ UNCHANGED <<once, after, fs, cyc, interval, env, slept, outcome,
                 session, cnt, acc>>

\* Mutant: a plain "started" flag, tested on entry and set when the closure
\* ends, instead of the Once.
Gate_NotAtomic(t) ==
  /\ At(t, "gate")
  /\ \/ /\ once # "complete"
        /\ once' = "running"
        /\ cnt' = [cnt EXCEPT !.launch = @ + 1]
        /\ Goto(t, "fetch")
        /\ after' = [after EXCEPT ![t] = "resolve"]
     \/ /\ once = "complete"
        /\ Goto(t, "idle")
        /\ UNCHANGED <<once, cnt, after>>
  /\ UNCHANGED <<calls, fs, cyc, interval, env, slept, outcome,
                 session, acc>>

\* Mutant: a caller that finds the closure running returns at once (a
\* compare-and-swap on a flag instead of the Once).
Gate_NoWait(t) ==
  /\ At(t, "gate")
  /\ \/ /\ once = "incomplete"
        /\ once' = "running"
        /\ cnt' = [cnt EXCEPT !.launch = @ + 1]
        /\ Goto(t, "fetch")
        /\ after' = [after EXCEPT ![t] = "resolve"]
     \/ /\ once # "incomplete"
        /\ Goto(t, "idle")
        /\ UNCHANGED <<once, cnt, after>>
  /\ UNCHANGED <<calls, fs, cyc, interval, env, slept, outcome,
                 session, acc>>

\* START.call_once, lines 73-76: the first caller runs the closure, starting
\* with the immediate poll cycle; a caller that finds the closure running
\* waits; a caller that finds it complete returns.
Gate(t) ==
  /\ At(t, "gate")
  /\ \/ /\ once = "incomplete"
        /\ once' = "running"
        /\ cnt' = [cnt EXCEPT !.launch = @ + 1]
        /\ Goto(t, "fetch")
        /\ after' = [after EXCEPT ![t] = "resolve"]
     \/ /\ once = "complete"
        /\ Goto(t, "idle")
        /\ UNCHANGED <<once, cnt, after>>
  /\ UNCHANGED <<calls, fs, cyc, interval, env, slept, outcome,
                 session, acc>>

\* Lines 78-81: poll_interval is bound from the environment.
Resolve(t) ==
  /\ At(t, "resolve")
  /\ interval' = [interval EXCEPT ![t] = PollInterval(env)]
  /\ Goto(t, "fork1")
  /\ UNCHANGED <<once, after, calls, fs, cyc, env, slept, outcome, session,
                 cnt, acc>>

\* Mutant: every result of fork() but 0 is taken for a failure, so the
\* parent of a successful fork spawns the fallback thread as well.
Fork1_ParentSpawns(t) ==
  /\ At(t, "fork1")
  /\ cnt' = [cnt EXCEPT !.fork1 = @ + 1]
  /\ \E ok \in BOOLEAN :
       IF ok
       THEN /\ outcome' = [outcome EXCEPT !.fork1 = "ok"]
            /\ pc' = [pc EXCEPT ![t] = "spawn", !["child"] = "setsid"]
            /\ interval' = [interval EXCEPT !["child"] = interval[t]]
            /\ session' = [session EXCEPT !.child = "caller"]
       ELSE /\ outcome' = [outcome EXCEPT !.fork1 = "fail"]
            /\ Goto(t, "spawn")
            /\ UNCHANGED <<interval, session>>
  /\ UNCHANGED <<once, after, calls, fs, cyc, env, slept, acc>>

\* libc::fork(), line 84: -1 leads to the fallback spawn; otherwise the
\* child starts at setsid with a copy of poll_interval and the parent has
\* nothing left to do in the closure.
Fork1(t) ==
  /\ At(t, "fork1")
  /\ cnt' = [cnt EXCEPT !.fork1 = @ + 1]
  /\ \E ok \in BOOLEAN :
       IF ok
       THEN /\ outcome' = [outcome EXCEPT !.fork1 = "ok"]
            /\ pc' = [pc EXCEPT ![t] = "finish", !["child"] = "setsid"]
            /\ interval' = [interval EXCEPT !["child"] = interval[t]]
            /\ session' = [session EXCEPT !.child = "caller"]
       ELSE /\ outcome' = [outcome EXCEPT !.fork1 = "fail"]
            /\ Goto(t, "spawn")
            /\ UNCHANGED <<interval, session>>
  /\ UNCHANGED <<once, after, calls, fs, cyc, env, slept, acc>>

\* Mutant: the spawn result is unwrapped, so a failed spawn panics inside
\* the closure and poisons the Once.
Spawn_Unwraps(t) ==
  /\ At(t, "spawn")
  /\ cnt' = [cnt EXCEPT !.spawn = @ + 1]
  /\ \E ok \in BOOLEAN :
       IF ok
       THEN /\ outcome' = [outcome EXCEPT !.spawn = "ok"]
            /\ pc' = [pc EXCEPT ![t] = "finish", !["fallback"] = "fetch"]
            /\ after' = [after EXCEPT !["fallback"] = "sleep"]
            /\ interval' = [interval EXCEPT !["fallback"] = interval[t]]
            /\ once' = once
       ELSE /\ outcome' = [outcome EXCEPT !.spawn = "fail"]
            /\ Goto(t, "panicked")
            /\ once' = "poisoned"
            /\ UNCHANGED <<after, interval>>
  /\ UNCHANGED <<calls, fs, cyc, env, slept, session, acc>>

\* thread::Builder::new().name(..).spawn(..), lines 88-93: the io::Result
\* is discarded; on success the new thread runs the poll loop.
Spawn(t) ==
  /\ At(t, "spawn")
  /\ cnt' = [cnt EXCEPT !.spawn = @ + 1]
  /\ \E ok \in BOOLEAN :
       IF ok
       THEN /\ outcome' = [outcome EXCEPT !.spawn = "ok"]
            /\ pc' = [pc EXCEPT ![t] = "finish", !["fallback"] = "fetch"]
            /\ after' = [after EXCEPT !["fallback"] = "sleep"]
            /\ interval' = [interval EXCEPT !["fallback"] = interval[t]]
       ELSE /\ outcome' = [outcome EXCEPT !.spawn = "fail"]
            /\ Goto(t, "finish")
            /\ UNCHANGED <<after, interval>>
  /\ UNCHANGED <<once, calls, fs, cyc, env, slept, session,
                 acc>>

\* The closure returns (lines 126-131): the Once becomes complete and
\* start() returns to its caller.
Finish(t) ==
  /\ At(t, "finish")
  /\ once' = "complete"
  /\ Goto(t, "idle")
  /\ after' = [after EXCEPT ![t] = "none"]
  /\ cyc' = [cyc EXCEPT ![t] = NoCycle]
  /\ UNCHANGED <<calls, fs, interval, env, slept, outcome,
                 session, cnt, acc>>

\* ------------------------------------------- the forked processes (95-125)
\* libc::setsid(), lines 97-99: on success the child leads a new session; a
\* negative result is only logged and the child goes on to the second fork
\* as a member of the caller's session.
Setsid ==
  /\ At("child", "setsid")
  /\ \E ok \in BOOLEAN :
       session' = IF ok THEN [session EXCEPT !.child = "new", !.leader = "child"]
                  ELSE session
  /\ Goto("child", "fork2")
  /\ UNCHANGED <<once, after, calls, fs, cyc, interval, env, slept,
                 outcome, cnt, acc>>

\* Mutant: when the second fork fails the child runs the poll loop itself
\* instead of exiting.
Fork2_FallsThrough ==
  /\ At("child", "fork2")
  /\ \E ok \in BOOLEAN :
       IF ok
       THEN /\ outcome' = [outcome EXCEPT !.fork2 = "ok", !.exit = 0]
            /\ pc' = [pc EXCEPT !["child"] = "exited",
                                !["grandchild"] = "redirect"]
            /\ interval' = [interval EXCEPT !["grandchild"] = interval["child"]]
            /\ session' = [session EXCEPT !.grandchild = session.child]
            /\ after' = after
       ELSE /\ outcome' = [outcome EXCEPT !.fork2 = "fail"]
            /\ Goto("child", "fetch")
            /\ after' = [after EXCEPT !["child"] = "sleep"]
            /\ UNCHANGED <<interval, session>>
  /\ UNCHANGED <<once, calls, fs, cyc, env, slept, cnt, acc>>

\* The second libc::fork(), lines 101-104 and 120-123: the child exits 1 on
\* failure and 0 on success; the grandchild starts at the redirection.
Fork2 ==
  /\ At("child", "fork2")
  /\ \E ok \in BOOLEAN :
       IF ok
       THEN /\ outcome' = [outcome EXCEPT !.fork2 = "ok", !.exit = 0]
            /\ pc' = [pc EXCEPT !["child"] = "exited",
                                !["grandchild"] = "redirect"]
            /\ interval' = [interval EXCEPT !["grandchild"] = interval["child"]]
            /\ session' = [session EXCEPT !.grandchild = session.child]
       ELSE /\ outcome' = [outcome EXCEPT !.fork2 = "fail", !.exit = 1]
            /\ Goto("child", "exited")
            /\ UNCHANGED <<interval, session>>
  /\ UNCHANGED <<once, after, calls, fs, cyc, env, slept, cnt,
                 acc>>

\* Mutant: the loop body is sleep-then-poll, so the daemon starts with a
\* sleep.
Redirect_SleepsFirst ==
  /\ At("grandchild", "redirect")
  /\ Goto("grandchild", "sleep")
  /\ after' = [after EXCEPT !["grandchild"] = "sleep"]
  /\ UNCHANGED <<once, calls, fs, cyc, interval, env, slept, outcome,
                 session, cnt, acc>>

\* Lines 107-112: stdio goes to /dev/null when it can be opened, and stays
\* as inherited otherwise; either way the grandchild enters the poll loop.
Redirect ==
  /\ At("grandchild", "redirect")
  /\ Goto("grandchild", "fetch")
  /\ after' = [after EXCEPT !["grandchild"] = "sleep"]
  /\ UNCHANGED <<once, calls, fs, cyc, interval, env, slept, outcome,
                 session, cnt, acc>>

\* Other code of the caller process sets or removes the environment variable.
SetEnv ==
  /\ \E v \in EnvWrites \ {env} : env' = v
  /\ UNCHANGED <<once, pc, after, calls, fs, cyc, interval, slept,
                 outcome, session, cnt, acc>>

\* -------------------------------------------------------- specifications
ThreadStep(t) ==
  Gate(t) \/ Cycle(t) \/ Resolve(t) \/ Fork1(t) \/ Spawn(t) \/ Finish(t)
LoopStep(c) == Cycle(c) \/ Sleep(c)
ChildStep == Setsid \/ Fork2 \/ Redirect

Next ==
  \/ \E t \in Threads : Call(t)
  \/ \E t \in Threads : ThreadStep(t)
  \/ \E c \in LoopCtx : LoopStep(c)
  \/ ChildStep

\* The environment variable keeps its value and a failed write leaves
\* nothing behind.
Spec == Init /\ [][Next]_vars

\* Writes may also fail part of the way.
FileNext == Next \/ \E c \in Ctx : WriteTorn(c)
FileSpec == Init /\ [][FileNext]_vars

\* The environment variable changes under the poller's feet.
EnvNext == Next \/ SetEnv
EnvSpec == EnvInit /\ [][EnvNext]_vars

\* A thread inside start(), a forked process and a spawned thread keep
\* being scheduled; nothing obliges the application to call start() or to
\* touch the environment.
Fairness ==
  /\ \A t \in Threads : WF_vars(ThreadStep(t))
  /\ \A c \in LoopCtx : WF_vars(LoopStep(c))
  /\ WF_vars(ChildStep)

LiveSpec == Spec /\ Fairness

TypeOK ==
  /\ once \in {"incomplete", "running", "complete"}
  /\ \A c \in Ctx : cyc[c].res \in {"none", "ok", "err"}
  /\ \A c \in Ctx : interval[c] >= -1

\* ------------------------------------------------------------ properties
Has(ops, op) == \E i \in 1..Len(ops) : ops[i] = op
Count(ops, S) == Cardinality({i \in 1..Len(ops) : ops[i] \in S})
Oversized(f) == f.exists /\ FileLen(f) > ROTATE_SIZE_BYTES
LaunchPcs == CyclePcs \cup {"resolve", "fork1", "spawn", "finish"}
RunsLoop(c) ==
  \/ pc[c] = "redirect"
  \/ after[c] = "sleep" /\ pc[c] \in CyclePcs \cup {"sleep"}
ActiveLoops == {c \in Ctx : RunsLoop(c)}
\* The launch sequence is over and the intermediate child, if any, is gone.
Settled ==
  /\ once = "complete"
  /\ outcome.fork1 = "ok" => pc["child"] = "exited"

\* C1: however many calls of start() are made, from one thread or several,
\* the closure is entered at most once, and caller threads together fetch,
\* call persist_sulog_content (the only writer of files), fork and spawn at
\* most once; at most one thread is ever inside the launch sequence, and
\* once any call has returned the launch sequence has run exactly once (one
\* fetch, one first fork).
C1_LaunchOnce ==
  /\ cnt.launch <= 1 /\ cnt.fetch <= 1 /\ cnt.persist <= 1
  /\ cnt.fork1 <= 1 /\ cnt.spawn <= 1
  /\ Cardinality({t \in Threads : pc[t] \in LaunchPcs}) <= 1
  /\ \A t \in Threads : pc[t] \in LaunchPcs => once = "running"
  /\ (calls >= 1 /\ \A t \in Threads : pc[t] = "idle") =>
       cnt.launch = 1 /\ cnt.fetch = 1 /\ cnt.fork1 = 1
C1_Witness ==
  /\ calls = MaxCalls
  /\ \A t \in Threads : pc[t] = "idle"
  /\ cnt.launch = 1

\* C2 as stated: once the launch has settled exactly one poll loop is
\* active, whatever the forks and the spawn returned.
C2_ExactlyOneLoop == Settled => Cardinality(ActiveLoops) = 1
\* C2 amended: never more than one poll loop is active, and only in the
\* grandchild or the fallback thread; once the launch has settled there is
\* one loop when the second fork or the thread spawn succeeded and none when
\* it failed.
C2_AtMostOneLoop ==
  /\ Cardinality(ActiveLoops) <= 1
  /\ ActiveLoops \subseteq LoopCtx
  /\ Settled =>
       (Cardinality(ActiveLoops) = 1 <=>
          (outcome.fork2 = "ok" \/ outcome.spawn = "ok"))
C2_Witness ==
  /\ Settled
  /\ calls = MaxCalls
  /\ pc["grandchild"] = "sleep"

\* C3 as stated: every cycle that starts with an oversized current file
\* renames it exactly once, leaves its old content in the backup and leaves
\* only the cycle's blob in the current file.
C3_AlwaysRotates ==
  \A c \in Ctx :
    (pc[c] = "done" /\ Oversized(cyc[c].pre.cur)) =>
      /\ Count(cyc[c].ops, {"rename_ok"}) = 1
      /\ fs.bak = cyc[c].pre.cur
      /\ fs.cur = File(<<FullChunk(cyc[c].fetch)>>)
\* C3 amended: in a cycle that starts with an oversized current file,
\* fetches a non-empty blob and gets through ensure_dir_exists and metadata,
\* exactly one rename is attempted, before the open and the write; if it
\* succeeds the backup holds what the current file held before the cycle,
\* and if open and write succeed too the current file holds only the blob.
C3_RotatesWhenItCan ==
  \A c \in Ctx :
    LET ops == cyc[c].ops IN
    (/\ pc[c] = "done"
     /\ Oversized(cyc[c].pre.cur)
     /\ cyc[c].fetch \in Blobs \ {"empty"}
     /\ Has(ops, "ensure_ok") /\ ~Has(ops, "stat_err")) =>
      /\ Count(ops, {"rename_ok", "rename_err"}) = 1
      /\ \A i, j \in 1..Len(ops) :
           (ops[i] \in {"rename_ok", "rename_err"} /\
            ops[j] \in {"open_ok", "open_err", "write_ok", "write_err"})
           => i < j
      /\ Has(ops, "rename_ok") => fs.bak = cyc[c].pre.cur
      /\ (Has(ops, "rename_ok") /\ Has(ops, "write_ok")) =>
           fs.cur = File(<<FullChunk(cyc[c].fetch)>>)
C3_Witness ==
  \E c \in Ctx :
    /\ pc[c] = "done"
    /\ Oversized(cyc[c].pre.cur)
    /\ Has(cyc[c].ops, "rename_ok") /\ Has(cyc[c].ops, "write_ok")
    /\ Len(cyc[c].pre.cur.data) = 2

\* C4: while no rotation has happened and no write has failed, the current
\* file's size is its initial size plus the lengths of the blobs persisted
\* with Ok.
C4_SizeIsSum == acc.valid => FileLen(fs.cur) = acc.init + acc.sum
C4_Witness ==
  /\ acc.valid
  /\ acc.sum = 2 * ROTATE_SIZE_BYTES
  /\ \E c \in LoopCtx : pc[c] = "done"

\* C5: persist_sulog_content with an empty blob returns Ok having done no
\* I/O: directory, current file and backup are as they were, also when the
\* directory is missing or the current file is oversized.
C5_EmptyBlobNoIO ==
  \A c \in Ctx :
    (pc[c] = "done" /\ cyc[c].fetch = "empty") =>
      /\ cyc[c].res = "ok"
      /\ cyc[c].ops = <<>>
      /\ fs = cyc[c].pre
C5_Witness ==
  \E c \in Ctx :
    /\ pc[c] = "done" /\ cyc[c].fetch = "empty"
    /\ Oversized(fs.cur)

\* C6: when ensure_dir_exists fails for a non-empty blob,
\* persist_sulog_content returns Err and has done nothing else: no rotation,
\* no open, no write, both files as before.
C6_DirFailureAborts ==
  \A c \in Ctx :
    (pc[c] = "done" /\ Has(cyc[c].ops, "ensure_err")) =>
      /\ cyc[c].res = "err"
      /\ cyc[c].ops = <<"ensure_err">>
      /\ fs = cyc[c].pre
C6_Witness ==
  \E c \in Ctx :
    /\ pc[c] = "done" /\ Has(cyc[c].ops, "ensure_err")
    /\ Oversized(fs.cur)

\* What PollInterval must yield for each value of the variable in EnvValues.
C7_Expected(e) ==
  CASE e = EnvStr(<<"5">>)      -> 5
    [] e = EnvStr(<<"+", "7">>) -> 7
    [] OTHER                    -> 30
Resolved == {interval[t] : t \in Threads} \ {-1}
\* C7: the launch sequence binds the interval to the variable's number when
\* it parses as an unsigned integer and to 30 otherwise; every sleep of a
\* poll loop lasts that one interval, whatever the variable is set to later.
C7_IntervalResolvedOnce ==
  /\ [](/\ Cardinality(Resolved) <= 1
        /\ \A c \in LoopCtx : slept[c] # -1 => slept[c] \in Resolved)
  /\ [][\A t \in Threads :
          (pc[t] = "resolve" /\ pc'[t] = "fork1") =>
            interval'[t] = C7_Expected(env)]_vars
C7_Witness ==
  /\ slept["grandchild"] = 7
  /\ env = EnvStr(<<"5">>)

\* C8 as stated: once the launch sequence has ended after a failed first
\* fork, the fallback thread is running the poll loop.
C8_FallbackRuns ==
  (outcome.fork1 = "fail" /\ once = "complete") => RunsLoop("fallback")

FailedCycle(c) ==
  pc[c] = "done" /\ (cyc[c].fetch = FetchErr \/ cyc[c].res = "err")

\* C9: a caller thread never runs a poll loop, never panics and never
\* poisons the Once, and every call of start() returns, whatever the fetch,
\* the persist steps, the first fork and the thread spawn did.
C9_StartReturns ==
  /\ [](/\ once \in {"incomplete", "running", "complete"}
        /\ \A t \in Threads :
             ~RunsLoop(t) /\ pc[t] \in LaunchPcs \cup {"idle", "gate"})
  /\ \A t \in Threads : (pc[t] # "idle") ~> (pc[t] = "idle")
C9_Witness ==
  \E t \in Threads :
    /\ pc[t] = "finish"
    /\ cyc[t].res = "err"
    /\ outcome.fork1 = "fail" /\ outcome.spawn = "fail"

\* C10: in a running poll loop the step after a failed cycle is the sleep,
\* and a failed cycle and every sleep are followed by the start of another
\* cycle.
C10_LoopSurvivesFailure ==
  /\ [][\A c \in LoopCtx :
          FailedCycle(c) /\ pc'[c] # "done" => pc'[c] = "sleep"]_vars
  /\ \A c \in LoopCtx :
       (FailedCycle(c) \/ pc[c] = "sleep") ~> (pc[c] = "fetch")
C10_Witness ==
  \E c \in LoopCtx :
    /\ FailedCycle(c)
    /\ slept[c] # -1
    /\ Has(cyc[c].ops, "write_err")

\* C11: the first-fork child only calls setsid and fork and exits: it never
\* fetches, persists or sleeps; it exits 1 when the second fork failed and 0
\* when it succeeded; of the forked processes only the grandchild runs the
\* poll loop, and only after a successful second fork.
C11_ChildOnlyHandsOff ==
  /\ pc["child"] \in {"none", "setsid", "fork2", "exited"}
  /\ cyc["child"] = NoCycle /\ after["child"] = "none"
  /\ ~RunsLoop("child")
  /\ pc["child"] = "exited" <=> outcome.fork2 # "none"
  /\ outcome.fork2 = "fail" => outcome.exit = 1
  /\ outcome.fork2 = "ok" => outcome.exit = 0
  /\ outcome.fork2 = "none" => outcome.exit = -1
  /\ pc["grandchild"] # "none" => outcome.fork2 = "ok"
C11_Witness ==
  /\ pc["child"] = "exited" /\ outcome.exit = 1
  /\ pc["grandchild"] = "none"
  /\ once = "complete"

\* C12 as stated: in every execution that reaches the second fork the child
\* has by then become the leader of a new session, and whenever the
\* grandchild runs the poll loop it is in a session other than the caller's
\* and does not lead it.
C12_DetachedSession ==
  /\ outcome.fork2 # "none" =>
       session.child = "new" /\ session.leader = "child"
  /\ RunsLoop("grandchild") =>
       session.grandchild = "new" /\ session.leader # "grandchild"

\* The I/O a context has recorded last in its cycle.
LastOp(ops) == IF ops = <<>> THEN "none" ELSE ops[Len(ops)]

C14_RenameFailureAppends ==
  \A c \in Ctx :
    LET ops == cyc[c].ops IN
    (pc[c] = "done" /\ Has(ops, "rename_err")) =>
      /\ Oversized(cyc[c].pre.cur)
      /\ cyc[c].fetch \in Blobs \ {"empty"}
      /\ ~Has(ops, "rename_ok")
      /\ Has(ops, "open_ok") \/ Has(ops, "open_err")
      /\ fs.bak = cyc[c].pre.bak
      /\ Has(ops, "write_ok") =>
           /\ cyc[c].res = "ok"
           /\ fs.cur = File(Append(cyc[c].pre.cur.data, FullChunk(cyc[c].fetch)))
           /\ Oversized(fs.cur)
      /\ cyc[c].res = "err" => Has(ops, "open_err") \/ Has(ops, "write_err")
C14_Witness ==
  \E c \in Ctx :
    /\ pc[c] = "done"
    /\ Has(cyc[c].ops, "rename_err") /\ Has(cyc[c].ops, "write_ok")
    /\ cyc[c].res = "ok"
    /\ fs.bak = File(<<Chunk("old", 1)>>)

\* A step of context c in which its rename of the current file succeeds.
Rotates(c) ==
  /\ pc[c] = "rotate" /\ pc'[c] = "open"
  /\ cyc'[c].ops = Append(cyc[c].ops, "rename_ok")

\* C15: every successful rotation makes the backup equal to what the current
\* file held just before it, whatever the backup held (and whether it
\* existed), and leaves no current file; no other step changes the backup.
\* So the one backup file always holds the current file's content of the
\* latest successful rotation.
C15_BackupIsLastRotation ==
  [][/\ \A c \in Ctx :
          Rotates(c) => fs'.bak = fs.cur /\ fs.cur.exists /\ ~fs'.cur.exists
     /\ fs'.bak # fs.bak => \E c \in Ctx : Rotates(c)]_vars
C15_Witness ==
  /\ fs.bak = File(<<FullChunk("full"), FullChunk("full")>>)
  /\ \E c \in LoopCtx : pc[c] = "open" /\ LastOp(cyc[c].ops) = "rename_ok"

InCycle == {c \in Ctx : pc[c] \in CyclePcs}
RotationOps == {"stat_err", "rename_ok", "rename_err"}
AppendOps == {"open_ok", "open_err", "write_ok", "write_err"}

\* C16: at most one of the caller threads, the child, the grandchild and the
\* fallback thread is inside a poll cycle at any time, so at most one has
\* the current file open for writing; and in each cycle the rotation check
\* is over before the open: a context at the open or the write has been
\* through ensure_dir_exists and, if its cycle found the file oversized, has
\* tried the rotation, and every rotation step precedes every open or write.
C16_CyclesNeverOverlap ==
  /\ Cardinality(InCycle) <= 1
  /\ Cardinality({c \in Ctx : pc[c] = "write"}) <= 1
  /\ \A c \in Ctx :
       LET ops == cyc[c].ops IN
       /\ \A i, j \in 1..Len(ops) :
            (ops[i] \in RotationOps /\ ops[j] \in AppendOps) => i < j
       /\ (pc[c] \in {"open", "write"} \/ Count(ops, AppendOps) > 0) =>
            /\ ops[1] = "ensure_ok"
            /\ Oversized(cyc[c].pre.cur) => Count(ops, RotationOps) = 1
            /\ ~Oversized(cyc[c].pre.cur) => Count(ops, RotationOps) = 0
C16_Witness ==
  /\ pc["grandchild"] = "write"
  /\ Has(cyc["grandchild"].ops, "rename_ok")
  /\ slept["grandchild"] # -1
  /\ cnt.persist = 1
  /\ \E t \in Threads : pc[t] = "gate"

\* d is base followed by the first n >= 1 bytes of blob b.
IsAppended(d, base, b) ==
  /\ Len(d) = Len(base) + 1
  /\ SubSeq(d, 1, Len(base)) = base
  /\ d[Len(d)].b = b
  /\ d[Len(d)].n >= 1 /\ d[Len(d)].n <= BlobLen(b)

\* C17 as stated: after a call of persist_sulog_content the current file's
\* content is unchanged, or its previous content followed by the blob, or,
\* after a successful rotation, the blob alone with the previous content in
\* the backup.
C17_ThreeOutcomes ==
  \A c \in Ctx :
    (pc[c] = "done" /\ cyc[c].fetch \in Blobs) =>
      LET prev == cyc[c].pre.cur.data
          blob == FullChunk(cyc[c].fetch) IN
      \/ fs.cur.data = prev
      \/ fs.cur.data = Append(prev, blob)
      \/ /\ Has(cyc[c].ops, "rename_ok")
         /\ fs.cur.data = <<blob>>
         /\ fs.bak = cyc[c].pre.cur
\* C17 amended: after a call of persist_sulog_content the current file holds
\* its previous content, or nothing when the call rotated (the previous
\* content is then the backup), followed by nothing, by the blob, or by a
\* non-empty prefix of the blob; it is followed by the whole blob when the
\* call returned Ok for a non-empty blob; without a rotation the backup is
\* as before.  Bytes already in the current file are never dropped or
\* changed in place.
C17_AppendOnly ==
  \A c \in Ctx :
    (pc[c] = "done" /\ cyc[c].fetch \in Blobs) =>
      LET ops == cyc[c].ops
          rotated == Has(ops, "rename_ok")
          base == IF rotated THEN <<>> ELSE cyc[c].pre.cur.data
          d == fs.cur.data IN
      /\ rotated => fs.bak = cyc[c].pre.cur
      /\ ~rotated => fs.bak = cyc[c].pre.bak
      /\ d = base \/ IsAppended(d, base, cyc[c].fetch)
      /\ (cyc[c].res = "ok" /\ cyc[c].fetch # "empty") =>
           d = Append(base, FullChunk(cyc[c].fetch))
      /\ (d # base /\ d # Append(base, FullChunk(cyc[c].fetch))) =>
           Has(ops, "write_err")
C17_Witness ==
  \E c \in Ctx :
    /\ pc[c] = "done"
    /\ Has(cyc[c].ops, "rename_ok") /\ Has(cyc[c].ops, "write_err")
    /\ Len(fs.cur.data) = 1
    /\ fs.cur.data[1].n < BlobLen(cyc[c].fetch)
    /\ fs.bak = cyc[c].pre.cur

\* C18 as stated: a cycle in which no rename fails and which appends its
\* blob leaves a current file of at most 32 MiB plus the blob's length.
C18_BoundUnlessRenameFails ==
  \A c \in Ctx :
    (/\ pc[c] = "done"
     /\ Has(cyc[c].ops, "write_ok")
     /\ ~Has(cyc[c].ops, "rename_err")) =>
      FileLen(fs.cur) <= 32 * 1024 * 1024 + BlobLen(cyc[c].fetch)
\* C18 amended: a cycle that gets to the rotation check with a non-empty
\* blob and in which neither metadata nor the rename fails leaves a current
\* file of at most 32 MiB plus the blob's length; a cycle that does not get
\* that far leaves the file as it was, oversized or not; and the file's size
\* goes down only in a successful rotation, which only a cycle with a
\* non-empty blob performs.
C18_SizeBound ==
  /\ [](\A c \in Ctx :
          pc[c] = "done" =>
            /\ (/\ Has(cyc[c].ops, "ensure_ok")
                /\ ~Has(cyc[c].ops, "rename_err")
                /\ ~Has(cyc[c].ops, "stat_err")) =>
                 FileLen(fs.cur) <= 32 * 1024 * 1024 + BlobLen(cyc[c].fetch)
            /\ ~Has(cyc[c].ops, "ensure_ok") => fs.cur = cyc[c].pre.cur)
  /\ [][FileLen(fs'.cur) < FileLen(fs.cur) =>
          \E c \in Ctx : Rotates(c) /\ cyc[c].fetch \in Blobs \ {"empty"}]_vars
C18_Witness ==
  \E c \in LoopCtx :
    /\ pc[c] = "done"
    /\ cyc[c].ops = <<"ensure_ok", "open_ok", "write_ok">>
    /\ FileLen(fs.cur) = 2 * ROTATE_SIZE_BYTES
    /\ fs.bak.exists

\* C19: in the launch sequence the poll cycle is over before the interval is
\* bound and before the first fork; nothing is forked or spawned while a
\* caller is in its cycle; a poll loop begins with a cycle (the grandchild
\* after its redirection), reaches a sleep only from the end of a cycle, and
\* goes from a sleep only to the start of a cycle; so the loop's first cycle
\* follows the caller's with no sleep, and then cycles and sleeps alternate.
C19_CycleFirst ==
  /\ [](/\ \A t \in Threads :
             /\ pc[t] \in CyclePcs \cup {"resolve"} =>
                  /\ \A u \in Threads : interval[u] = -1
                  /\ outcome.fork1 = "none" /\ outcome.spawn = "none"
                  /\ \A c \in Ctx \ Threads : pc[c] = "none"
             /\ pc[t] \in {"resolve", "fork1", "spawn", "finish"} =>
                  cnt.fetch = 1 /\ cyc[t].fetch # "none"
             /\ pc[t] \in {"fork1", "spawn", "finish"} => interval[t] # -1
        /\ \A c \in LoopCtx :
             /\ pc[c] \in {"none", "redirect"} => slept[c] = -1
             /\ pc[c] # "none" => cnt.fetch = 1)
  /\ [][\A c \in LoopCtx :
          /\ slept'[c] # slept[c] => pc[c] = "sleep"
          /\ pc'[c] # pc[c] =>
               /\ pc[c] = "none" => pc'[c] \in {"redirect", "fetch"}
               /\ pc[c] = "redirect" => pc'[c] = "fetch"
               /\ pc'[c] = "sleep" => pc[c] = "done"
               /\ pc[c] = "done" => pc'[c] = "sleep"
               /\ pc[c] = "sleep" => pc'[c] = "fetch" /\ slept'[c] # -1]_vars
C19_Witness ==
  \E c \in LoopCtx :
    /\ pc[c] = "sleep"
    /\ slept[c] = -1
    /\ cnt.fetch = 1
    /\ once = "complete"

\* C20: a call of start() returns only when the Once is complete: by then
\* the launch sequence has run once, its poll cycle is over and the first
\* fork, and after a failed fork the thread spawn, has been attempted; a
\* caller that arrives while another thread runs the launch sequence stays
\* at the gate until that thread has finished.
C20_ReturnAfterLaunch ==
  /\ [](\A t \in Threads :
          (pc[t] = "gate" /\ once = "running") =>
            \E u \in Threads \ {t} : pc[u] \in LaunchPcs)
  /\ [][\A t \in Threads :
          /\ (pc[t] = "gate" /\ once = "running") => pc'[t] = "gate"
          /\ (pc[t] # "idle" /\ pc'[t] = "idle") =>
               /\ once' = "complete"
               /\ \A u \in Threads : pc'[u] \notin LaunchPcs
               /\ cnt.launch = 1 /\ cnt.fetch = 1 /\ cnt.fork1 = 1
               /\ outcome.fork1 # "none"
               /\ outcome.fork1 = "fail" =>
                    cnt.spawn = 1 /\ outcome.spawn # "none"]_vars
C20_Witness ==
  \E t, u \in Threads :
    /\ pc[t] = "gate"
    /\ pc[u] = "finish"
    /\ once = "running"
    /\ outcome.fork1 = "fail"
====
